---- MODULE Spec2Model ----
(***************************************************************************)
(* Model of kayak/differentiable.py: the Differentiable node of a          *)
(* computation graph, with its memoized value, its per-target memoized     *)
(* gradient and the invalidation cascade of the value setter.              *)
(*                                                                         *)
(* Arrays are modelled as integers (one element); np.ones is 1 and         *)
(* np.zeros is 0.  An absent Python value (None, a missing dict key) is    *)
(* the empty sequence, a present one a one-element sequence.               *)
(***************************************************************************)
EXTENDS Integers, Sequences, FiniteSets, TLC

\* ---------------------------------------------------------------- bounds
MaxNodes == 3
MaxVal == 2
CountCap == 2
\* The one specification of deeper graphs (SpecDeep) builds up to MaxDeep
\* nodes; every other specification stops at MaxNodes.
MaxDeep == 4
\* In SpecChain grad is asked of the first MaxTargets nodes only.
MaxTargets == 2

Nodes == 1..(IF MaxDeep > MaxNodes THEN MaxDeep ELSE MaxNodes)
Vals == 1..MaxVal

None == <<>>
Some(v) == <<v>>

\* The operation kinds a node is constructed from: <<kind, coefficients>>.
\* "base" is the Differentiable class itself (both extension points raise),
\* "lin" is sum_k coefs[k] * parent_k, "mul" is parent_0 * parent_1.
\* "fwd" is a kind that overrides _compute_value (as "lin" does) and leaves
\* _local_grad abstract.
OpMenu ==
    { <<"base", <<>>>>, <<"lin", <<2>>>>, <<"lin", <<3>>>>,
      <<"lin", <<2, 3>>>>, <<"mul", <<1, 1>>>> }

VARIABLES
    n,          \* number of nodes constructed so far
    kind,       \* kind[i]: the class of node i ("none" before construction)
    coefs,      \* coefs[i]: coefficients of a "lin" node, one per slot
    parents,    \* self._parents: sequence of node ids
    children,   \* self._children: sequence of <<child, parent_index>>
    value,      \* self._value: None or Some(v)
    grad,       \* self._grad: grad[i][t] is None or Some(g)
    cvInvoked,  \* _compute_value calls on i since its value was last cleared
    cvReturned, \* _compute_value calls on i that returned, same epoch
    counting,   \* whether cvInvoked and cvReturned are kept (fixed by Init)
    exclusive,  \* whether a write excludes the other thread (fixed by Init)
    wr,         \* the position of the writing thread inside the setter
    last        \* the operation that produced this state

vars == <<n, kind, coefs, parents, children, value, grad,
          cvInvoked, cvReturned, counting, exclusive, wr, last>>

NoGrad == [t \in Nodes |-> None]

Bump(c) == IF c < CountCap THEN c + 1 ELSE CountCap
Count(c) == IF counting THEN Bump(c) ELSE c
\* The tallies of one call (kept with the counters): they need no cap, a
\* call makes finitely many steps.
Tally(c) == IF counting THEN c + 1 ELSE c
NoTally == [i \in Nodes |-> 0]

\* ------------------------------------------------ the call state (St)
\* A call runs on a record of the mutable fields plus what the call
\* returns: ret (the returned number), exc (an exception propagates),
\* lg (number of _local_grad calls), cc (number of _clear_*_cache calls),
\* cv (number of _compute_value calls), vc (number of values cleared),
\* failed (the nodes whose _d_out_d_self raised), steps (number of method
\* calls made), vclr[i] and gclr[i] (how often `self._value = None` and
\* `self._grad = {}` ran on node i).
St0 ==
    [value |-> value, grad |-> grad,
     cvInvoked |-> cvInvoked, cvReturned |-> cvReturned,
     ret |-> 0, exc |-> FALSE, lg |-> 0, cc |-> 0, cv |-> 0, vc |-> 0,
     failed |-> {}, steps |-> 0, vclr |-> NoTally, gclr |-> NoTally]

\* Entry into a method.
Enter(S) == [S EXCEPT !.steps = Tally(@)]

Raise(S) == [S EXCEPT !.exc = TRUE, !.ret = 0]

RECURSIVE value_get(_, _)
RECURSIVE compute_value(_, _)
RECURSIVE ReadParents(_, _, _)
RECURSIVE clear_value_cache(_, _)
RECURSIVE ClearChildren(_, _, _)
RECURSIVE clear_grad_cache(_, _)
RECURSIVE ClearParents(_, _, _)
RECURSIVE d_out_d_self(_, _, _)
RECURSIVE SumChildren(_, _, _, _)
RECURSIVE d_out_d_parent(_, _, _, _)
RECURSIVE local_grad(_, _, _, _)

\* A concrete _compute_value reads parent.value of every parent, in slot
\* order, through the value property.
ReadParents(S, i, k) ==
    IF k = 0 THEN S
    ELSE LET S1 == ReadParents(S, i, k - 1)
         IN  IF S1.exc THEN S1 ELSE value_get(S1, parents[i][k])

LinValue(S, i) ==
    LET R == ReadParents(S, i, Len(parents[i]))
        RECURSIVE Sum(_)
        Sum(k) == IF k = 0 THEN 0
                  ELSE Sum(k - 1) + coefs[i][k] * R.value[parents[i][k]][1]
    IN  IF R.exc THEN R ELSE [R EXCEPT !.ret = Sum(Len(parents[i]))]

MulValue(S, i) ==
    LET R == ReadParents(S, i, Len(parents[i]))
    IN  IF R.exc THEN R
        ELSE [R EXCEPT !.ret = R.value[parents[i][1]][1] * R.value[parents[i][2]][1]]

\* _compute_value: abstract in Differentiable, overridden by the kinds.
compute_value(S, i) ==
    LET S1 == [Enter(S) EXCEPT !.cvInvoked[i] = Count(@), !.cv = Bump(@)]
        R  == IF kind[i] \in {"lin", "fwd"} THEN LinValue(S1, i)
              ELSE IF kind[i] = "mul" THEN MulValue(S1, i)
              ELSE Raise(S1)
    IN  IF R.exc THEN R ELSE [R EXCEPT !.cvReturned[i] = Count(@)]

\* Variant: the getter does not look at the cached value.
value_get_always_computes(S, i) ==
    LET C == compute_value(S, i)
    IN  IF C.exc THEN C ELSE [C EXCEPT !.value[i] = Some(C.ret)]

\* Variant: a read that finds a cached value drops the gradient entries.
value_get_clears_grad(S, i) ==
    LET S0 == Enter(S)
    IN  IF S0.value[i] = None
        THEN LET C == compute_value(S0, i)
             IN  IF C.exc THEN C ELSE [C EXCEPT !.value[i] = Some(C.ret)]
        ELSE [S0 EXCEPT !.ret = S0.value[i][1], !.grad[i] = NoGrad]

\* The value property (getter).
value_get(S, i) ==
    LET S0 == Enter(S)
    IN  IF S0.value[i] = None
        THEN LET C == compute_value(S0, i)
             IN  IF C.exc THEN C ELSE [C EXCEPT !.value[i] = Some(C.ret)]
        ELSE [S0 EXCEPT !.ret = S0.value[i][1]]

\* Variant: only the last child is visited.
ClearChildren_last_only(S, i, k) ==
    IF k = 0 THEN S ELSE clear_value_cache(S, children[i][k][1])

\* [child._clear_value_cache() for child, _ in self._children]
ClearChildren(S, i, k) ==
    IF k = 0 THEN S
    ELSE clear_value_cache(ClearChildren(S, i, k - 1), children[i][k][1])

\* [parent._clear_grad_cache() for parent in self._parents]
ClearParents(S, i, k) ==
    IF k = 0 THEN S
    ELSE clear_grad_cache(ClearParents(S, i, k - 1), parents[i][k])

\* Variant: the walk to the parents does not stop at an empty cache.
clear_grad_cache_always(S, i) ==
    LET S0 == [Enter(S) EXCEPT !.cc = Bump(@)]
    IN  [ClearParents(S0, i, Len(parents[i]))
            EXCEPT !.grad[i] = NoGrad, !.gclr[i] = Tally(@)]

\* Variant: the gradient cache is left as it is.
clear_grad_cache_keeps_entries(S, i) == [Enter(S) EXCEPT !.cc = Bump(@)]

\* Variant: emptying the gradient cache drops the cached value as well.
clear_grad_cache_drops_value(S, i) ==
    LET S0 == [Enter(S) EXCEPT !.cc = Bump(@)]
    IN  IF S0.grad[i] # NoGrad
        THEN [ClearParents(S0, i, Len(parents[i]))
                 EXCEPT !.grad[i] = NoGrad, !.gclr[i] = Tally(@), !.value[i] = None]
        ELSE S0

clear_grad_cache(S, i) ==
    LET S0 == [Enter(S) EXCEPT !.cc = Bump(@)]
    IN  IF S0.grad[i] # NoGrad
        THEN [ClearParents(S0, i, Len(parents[i]))
                 EXCEPT !.grad[i] = NoGrad, !.gclr[i] = Tally(@)]
        ELSE S0

\* Variants of the invalidation with one step of it left out.
clear_value_cache_keeps_children(S, i) ==
    LET S0 == [Enter(S) EXCEPT !.cc = Bump(@)]
    IN  IF S0.value[i] # None
        THEN [clear_grad_cache(S0, i)
                 EXCEPT !.value[i] = None, !.vc = Bump(@), !.vclr[i] = Tally(@),
                        !.cvInvoked[i] = 0, !.cvReturned[i] = 0]
        ELSE S0

clear_value_cache_keeps_grad(S, i) ==
    LET S0 == [Enter(S) EXCEPT !.cc = Bump(@)]
    IN  IF S0.value[i] # None
        THEN [ClearChildren(S0, i, Len(children[i]))
                 EXCEPT !.value[i] = None, !.vc = Bump(@), !.vclr[i] = Tally(@),
                        !.cvInvoked[i] = 0, !.cvReturned[i] = 0]
        ELSE S0

\* Variant: the cascade runs whether or not a value is cached.
clear_value_cache_unguarded(S, i) ==
    LET S0 == [Enter(S) EXCEPT !.cc = Bump(@)]
        S1 == ClearChildren(S0, i, Len(children[i]))
        S2 == clear_grad_cache_always(S1, i)
    IN  [S2 EXCEPT !.value[i] = None, !.vclr[i] = Tally(@),
                   !.cvInvoked[i] = 0, !.cvReturned[i] = 0]

clear_value_cache(S, i) ==
    LET S0 == [Enter(S) EXCEPT !.cc = Bump(@)]
    IN  IF S0.value[i] # None
        THEN LET S1 == ClearChildren(S0, i, Len(children[i]))
                 S2 == clear_grad_cache(S1, i)
             IN  [S2 EXCEPT !.value[i] = None, !.vc = Bump(@), !.vclr[i] = Tally(@),
                            !.cvInvoked[i] = 0, !.cvReturned[i] = 0]
        ELSE S0

\* Variant: the new value is stored before the cascade runs.
value_set_stores_first(S, i, v) ==
    clear_value_cache([S EXCEPT !.value[i] = Some(v)], i)

\* The value property (setter).
value_set(S, i, v) ==
    [clear_value_cache(Enter(S), i) EXCEPT !.value[i] = Some(v)]

\* Variant: the shape is known without reading the value.
shape_without_value(S, i) == [Enter(S) EXCEPT !.ret = 0]

\* The shape property: self.value.shape; every array has the same shape
\* here, so only the read of self.value is kept.
shape(S, i) == value_get(S, i)

\* _local_grad: abstract in Differentiable, overridden by the kinds.
\* parent is the 0-based parent_index.
LinLocalGrad(S, c, parent, seed) ==
    [S EXCEPT !.ret = coefs[c][parent + 1] * seed]

MulLocalGrad(S, c, parent, seed) ==
    LET V == value_get(S, parents[c][2 - parent])
    IN  IF V.exc THEN V ELSE [V EXCEPT !.ret = seed * V.ret]

local_grad(S, c, parent, seed) ==
    LET S1 == [Enter(S) EXCEPT !.lg = Bump(@)]
    IN  IF kind[c] = "lin" THEN LinLocalGrad(S1, c, parent, seed)
        ELSE IF kind[c] = "mul" THEN MulLocalGrad(S1, c, parent, seed)
        ELSE Raise(S1)

d_out_d_parent(S, c, out, parent) ==
    LET D == d_out_d_self(Enter(S), c, out)
    IN  IF D.exc THEN D ELSE local_grad(D, c, parent, D.ret)

\* Variant: each contribution replaces the sum instead of adding to it.
SumChildren_overwrites(S, i, out, k) ==
    IF k = 0 THEN [S EXCEPT !.ret = 0]
    ELSE LET A == SumChildren(S, i, out, k - 1)
         IN  IF A.exc THEN A
             ELSE d_out_d_parent(A, children[i][k][1], out, children[i][k][2])

\* for child, parent_index in self._children: grad += ...
SumChildren(S, i, out, k) ==
    IF k = 0 THEN [S EXCEPT !.ret = 0]
    ELSE LET A == SumChildren(S, i, out, k - 1)
         IN  IF A.exc THEN A
             ELSE LET B == d_out_d_parent(A, children[i][k][1], out, children[i][k][2])
                  IN  IF B.exc THEN B ELSE [B EXCEPT !.ret = A.ret + B.ret]

\* Variant: the accumulation starts from ones, as the seed does.
d_out_d_self_ones(S, i, out) ==
    IF S.grad[i][out] = None
    THEN LET Z == shape(S, i)
             A == IF Z.exc THEN Z ELSE SumChildren(Z, i, out, Len(children[i]))
             G == IF Z.exc THEN Z
                  ELSE IF i = out THEN [Z EXCEPT !.ret = 1]
                  ELSE IF A.exc THEN A ELSE [A EXCEPT !.ret = @ + 1]
         IN  IF G.exc THEN G ELSE [G EXCEPT !.grad[i][out] = Some(G.ret)]
    ELSE [S EXCEPT !.ret = S.grad[i][out][1]]

\* Variant: the cached entry is not looked up.
d_out_d_self_recomputes(S, i, out) ==
    LET Z == shape(S, i)
        G == IF Z.exc THEN Z
             ELSE IF i = out THEN [Z EXCEPT !.ret = 1]
             ELSE SumChildren(Z, i, out, Len(children[i]))
    IN  IF G.exc THEN G ELSE [G EXCEPT !.grad[i][out] = Some(G.ret)]

\* Variant: the target itself is summed over its children like any node.
d_out_d_self_no_seed(S, i, out) ==
    IF S.grad[i][out] = None
    THEN LET Z == shape(S, i)
             G == IF Z.exc THEN Z
                  ELSE SumChildren(Z, i, out, Len(children[i]))
         IN  IF G.exc THEN G ELSE [G EXCEPT !.grad[i][out] = Some(G.ret)]
    ELSE [S EXCEPT !.ret = S.grad[i][out][1]]

\* Variant: the sum reached so far is stored when a child raises.
d_out_d_self_stores_partial(S, i, out) ==
    LET S0 == Enter(S)
    IN  IF S0.grad[i][out] = None
        THEN LET Z == shape(S0, i)
                 G == IF Z.exc THEN Z
                      ELSE IF i = out THEN [Z EXCEPT !.ret = 1]
                      ELSE SumChildren(Z, i, out, Len(children[i]))
             IN  IF Z.exc THEN [Z EXCEPT !.failed = @ \cup {i}]
                 ELSE [G EXCEPT !.grad[i][out] = Some(G.ret),
                                !.failed = IF G.exc THEN @ \cup {i} ELSE @]
        ELSE [S0 EXCEPT !.ret = S0.grad[i][out][1]]

d_out_d_self(S, i, out) ==
    LET S0 == Enter(S)
    IN  IF S0.grad[i][out] = None
        THEN LET Z == shape(S0, i)
                 G == IF Z.exc THEN Z
                      ELSE IF i = out THEN [Z EXCEPT !.ret = 1]
                      ELSE SumChildren(Z, i, out, Len(children[i]))
             IN  IF G.exc THEN [G EXCEPT !.failed = @ \cup {i}]
                 ELSE [G EXCEPT !.grad[i][out] = Some(G.ret)]
        ELSE [S0 EXCEPT !.ret = S0.grad[i][out][1]]

\* self.grad(other)
grad_call(S, self, other) == d_out_d_self(Enter(S), other, self)

\* ------------------------------------------------------------ actions
Built == 1..n

Result(S) == IF S.exc THEN None ELSE Some(S.ret)

\* No write is in progress.
Idle == [phase |-> "idle", node |-> 0, v |-> 0, hadValue |-> FALSE, hadGrad |-> FALSE]

InitNodes ==
    /\ n = 0
    /\ wr = Idle
    /\ kind = [i \in Nodes |-> "none"]
    /\ coefs = [i \in Nodes |-> <<>>]
    /\ parents = [i \in Nodes |-> <<>>]
    /\ children = [i \in Nodes |-> <<>>]
    /\ value = [i \in Nodes |-> None]
    /\ grad = [i \in Nodes |-> NoGrad]
    /\ cvInvoked = [i \in Nodes |-> 0]
    /\ cvReturned = [i \in Nodes |-> 0]
    /\ last = [op |-> "init", a |-> 0, b |-> 0, ret |-> None, exc |-> FALSE,
               lg |-> 0, cc |-> 0, cv |-> 0, vc |-> 0,
               failed |-> {}, steps |-> 0, vclr |-> NoTally, gclr |-> NoTally,
               hadValue |-> FALSE, hadGrad |-> FALSE]

Init == InitNodes /\ counting = FALSE /\ exclusive = TRUE
InitCount == InitNodes /\ counting = TRUE /\ exclusive = TRUE

RECURSIVE add_children_one_based(_, _, _, _)
\* Variant: the back-reference carries the 1-based position of the slot.
add_children_one_based(ch, self, ps, k) ==
    IF k = 0 THEN ch
    ELSE LET c1 == add_children_one_based(ch, self, ps, k - 1)
         IN  [c1 EXCEPT ![ps[k]] = Append(@, <<self, k>>)]

RECURSIVE add_children_prepends(_, _, _, _)
\* Variant: the back-reference is put at the front of the list.
add_children_prepends(ch, self, ps, k) ==
    IF k = 0 THEN ch
    ELSE LET c1 == add_children_prepends(ch, self, ps, k - 1)
         IN  [c1 EXCEPT ![ps[k]] = <<<<self, k - 1>>>> \o @]

RECURSIVE add_children(_, _, _, _)
\* for parent_index, parent in enumerate(parents): parent._add_child(self, parent_index)
add_children(ch, self, ps, k) ==
    IF k = 0 THEN ch
    ELSE LET c1 == add_children(ch, self, ps, k - 1)
         IN  [c1 EXCEPT ![ps[k]] = Append(@, <<self, k - 1>>)]

\* Differentiable.__init__ (through the constructor of a kind).
NewNode(m, ps) ==
    /\ Len(ps) = Len(m[2])
    /\ LET self == n + 1
       IN  /\ n' = self
           /\ kind' = [kind EXCEPT ![self] = m[1]]
           /\ coefs' = [coefs EXCEPT ![self] = m[2]]
           /\ children' = [add_children(children, self, ps, Len(ps)) EXCEPT ![self] = <<>>]
           /\ parents' = [parents EXCEPT ![self] = ps]
           /\ value' = [value EXCEPT ![self] = None]
           /\ grad' = [grad EXCEPT ![self] = NoGrad]
           /\ last' = [op |-> "new", a |-> self, b |-> 0, ret |-> None, exc |-> FALSE,
                       lg |-> 0, cc |-> 0, cv |-> 0, vc |-> 0,
               failed |-> {}, steps |-> 0, vclr |-> NoTally, gclr |-> NoTally,
               hadValue |-> FALSE, hadGrad |-> FALSE]
    /\ UNCHANGED <<cvInvoked, cvReturned, counting, exclusive, wr>>

New(m, ps) == n < MaxNodes /\ NewNode(m, ps)

\* x = node.value
Read(i) ==
    \E S \in {value_get(St0, i)} :
        /\ value' = S.value
        /\ grad' = S.grad
        /\ cvInvoked' = S.cvInvoked
        /\ cvReturned' = S.cvReturned
        /\ last' = [op |-> "read", a |-> i, b |-> 0, ret |-> Result(S), exc |-> S.exc,
                    lg |-> S.lg, cc |-> S.cc, cv |-> S.cv, vc |-> S.vc,
                    failed |-> S.failed, steps |-> S.steps,
                    vclr |-> S.vclr, gclr |-> S.gclr,
                    hadValue |-> value[i] # None, hadGrad |-> grad[i] # NoGrad]
        /\ UNCHANGED <<n, kind, coefs, parents, children, counting, exclusive, wr>>

\* node.value = v
Write(i, v) ==
    \E S \in {value_set(St0, i, v)} :
        /\ value' = S.value
        /\ grad' = S.grad
        /\ cvInvoked' = [S.cvInvoked EXCEPT ![i] = 0]
        /\ cvReturned' = [S.cvReturned EXCEPT ![i] = 0]
        /\ last' = [op |-> "write", a |-> i, b |-> v, ret |-> None, exc |-> FALSE,
                    lg |-> S.lg, cc |-> S.cc, cv |-> S.cv, vc |-> S.vc,
                    failed |-> S.failed, steps |-> S.steps,
                    vclr |-> S.vclr, gclr |-> S.gclr,
                    hadValue |-> value[i] # None, hadGrad |-> grad[i] # NoGrad]
        /\ UNCHANGED <<n, kind, coefs, parents, children, counting, exclusive, wr>>

\* g = o.grad(p)
Grad(o, p) ==
    \E S \in {grad_call(St0, o, p)} :
        /\ value' = S.value
        /\ grad' = S.grad
        /\ cvInvoked' = S.cvInvoked
        /\ cvReturned' = S.cvReturned
        /\ last' = [op |-> "grad", a |-> o, b |-> p, ret |-> Result(S), exc |-> S.exc,
                    lg |-> S.lg, cc |-> S.cc, cv |-> S.cv, vc |-> S.vc,
                    failed |-> S.failed, steps |-> S.steps,
                    vclr |-> S.vclr, gclr |-> S.gclr,
                    hadValue |-> value[p] # None, hadGrad |-> grad[p][o] # None]
        /\ UNCHANGED <<n, kind, coefs, parents, children, counting, exclusive, wr>>

IsLeaf(i) == parents[i] = <<>>

ParentLists == {<<>>} \cup {<<p>> : p \in Built} \cup {<<p, q>> : p, q \in Built}

Construct == \E m \in OpMenu : \E ps \in ParentLists : New(m, ps)
ReadValue == \E i \in Built : Read(i)
WriteLeaf == \E i \in Built : \E v \in Vals : IsLeaf(i) /\ Write(i, v)
\* A write to an operation node stores the one value MaxVal.
WriteInner == \E i \in Built : ~IsLeaf(i) /\ Write(i, MaxVal)
RECURSIVE IsAncestor(_, _)
\* p is o or reaches o through the parent edges.
IsAncestor(p, o) ==
    \/ p = o
    \/ \E k \in 1..Len(parents[o]) : IsAncestor(p, parents[o][k])

CallGrad == \E o \in Built : \E p \in Built : IsAncestor(p, o) /\ Grad(o, p)
CallGradOther == \E o \in Built : \E p \in Built : ~IsAncestor(p, o) /\ Grad(o, p)

\* The documented use: writes go to leaves, grad is asked of ancestors.
Next == Construct \/ ReadValue \/ WriteLeaf \/ CallGrad
Spec == Init /\ [][Next]_vars

\* The same calls with the _compute_value counters kept.
SpecCount == InitCount /\ [][Next]_vars

\* The setter is on every node: writes to operation nodes included.
NextWrite == Construct \/ ReadValue \/ WriteLeaf \/ WriteInner \/ CallGrad
SpecWrite == Init /\ [][NextWrite]_vars

\* Deeper graphs of fewer kinds: one leaf, written with one value, and below
\* it two-slot "lin" nodes and "fwd" nodes.
DeepMenu == { <<"lin", <<2, 3>>>>, <<"fwd", <<2>>>> }
ConstructDeep ==
    /\ n < MaxDeep
    /\ IF n = 0 THEN NewNode(<<"base", <<>>>>, <<>>)
       ELSE \E m \in DeepMenu : \E ps \in ParentLists : NewNode(m, ps)
WriteDeep == \E i \in Built : IsLeaf(i) /\ Write(i, MaxVal)
NextDeep == ConstructDeep \/ ReadValue \/ WriteDeep \/ CallGrad
SpecDeep == Init /\ [][NextDeep]_vars

\* Deeper graphs of one-slot nodes (chains and trees below one leaf), with
\* grad unvalidated and asked of the first MaxTargets nodes.
ConstructChain ==
    /\ n < MaxDeep
    /\ IF n = 0 THEN NewNode(<<"base", <<>>>>, <<>>)
       ELSE \E ps \in ParentLists : NewNode(<<"lin", <<2>>>>, ps)
CallGradChain ==
    \E o \in Built : \E p \in Built : o <= MaxTargets /\ Grad(o, p)
NextChain == ConstructChain \/ ReadValue \/ WriteDeep \/ CallGradChain
SpecChain == Init /\ [][NextChain]_vars

\* ------------------------------------------------------------ threads
\* One thread writes leaves, running the setter in the three steps of its
\* invalidation: the children are cleared (line 42), the gradient caches
\* are cleared (line 43), the value is cleared and replaced (lines 44 and
\* 33).  Another thread reads values and calls grad; each of its calls is
\* one step.  With exclusive set, that thread waits while a write runs.
Cascading(i) ==
    [op |-> "cascade", a |-> i, b |-> 0, ret |-> None, exc |-> FALSE,
     lg |-> 0, cc |-> 0, cv |-> 0, vc |-> 0,
     failed |-> {}, steps |-> 0, vclr |-> NoTally, gclr |-> NoTally,
     hadValue |-> FALSE, hadGrad |-> FALSE]

\* node.value = v, up to the end of line 42; without a cached value the
\* cascade is skipped (line 41).
WriteStart(i, v) ==
    /\ wr.phase = "idle"
    /\ \E S \in {IF value[i] # None THEN ClearChildren(St0, i, Len(children[i]))
                  ELSE St0} :
          /\ value' = S.value
          /\ grad' = S.grad
          /\ cvInvoked' = S.cvInvoked
          /\ cvReturned' = S.cvReturned
    /\ wr' = [phase |-> IF value[i] # None THEN "grads" ELSE "store",
              node |-> i, v |-> v,
              hadValue |-> value[i] # None, hadGrad |-> grad[i] # NoGrad]
    /\ last' = Cascading(i)
    /\ UNCHANGED <<n, kind, coefs, parents, children, counting, exclusive>>

\* self._clear_grad_cache() of the written node (line 43).
WriteGrads ==
    /\ wr.phase = "grads"
    /\ \E S \in {clear_grad_cache(St0, wr.node)} :
          /\ value' = S.value
          /\ grad' = S.grad
          /\ cvInvoked' = S.cvInvoked
          /\ cvReturned' = S.cvReturned
    /\ wr' = [wr EXCEPT !.phase = "store"]
    /\ last' = Cascading(wr.node)
    /\ UNCHANGED <<n, kind, coefs, parents, children, counting, exclusive>>

\* self._value = None; self._value = new_value (lines 44 and 33).
WriteStore ==
    /\ wr.phase = "store"
    /\ value' = [value EXCEPT ![wr.node] = Some(wr.v)]
    /\ cvInvoked' = [cvInvoked EXCEPT ![wr.node] = 0]
    /\ cvReturned' = [cvReturned EXCEPT ![wr.node] = 0]
    /\ wr' = Idle
    /\ last' = [Cascading(wr.node) EXCEPT !.op = "write", !.b = wr.v,
                                          !.hadValue = wr.hadValue,
                                          !.hadGrad = wr.hadGrad]
    /\ UNCHANGED <<n, kind, coefs, parents, children, grad, counting, exclusive>>

Free == exclusive => wr.phase = "idle"

\* The graphs of the two threads are made of leaves, one-slot linear nodes
\* and products.
ThreadMenu == { <<"base", <<>>>>, <<"lin", <<2>>>>, <<"mul", <<1, 1>>>> }
ThreadConstruct ==
    /\ wr.phase = "idle"
    /\ \E m \in ThreadMenu : \E ps \in ParentLists : New(m, ps)
ThreadRead == Free /\ ReadValue
ThreadGrad == Free /\ CallGrad
ThreadWriteStart == \E i \in Built : \E v \in Vals : IsLeaf(i) /\ WriteStart(i, v)

InitThreads == InitNodes /\ counting = FALSE /\ exclusive \in BOOLEAN
NextThreads ==
    \/ ThreadConstruct \/ ThreadRead \/ ThreadGrad
    \/ ThreadWriteStart \/ WriteGrads \/ WriteStore
SpecThreads == InitThreads /\ [][NextThreads]_vars

\* grad is not validated: grad with respect to a node that is no ancestor.
NextGrad == Construct \/ ReadValue \/ WriteLeaf \/ CallGrad \/ CallGradOther
SpecGrad == Init /\ [][NextGrad]_vars

TypeOK ==
    /\ n \in {0} \cup Nodes
    /\ \A i \in Nodes : Len(value[i]) <= 1

\* ------------------------------------------------- graph vocabulary
ChildNodes(i) == {children[i][k][1] : k \in 1..Len(children[i])}
ParentNodes(i) == {parents[i][k] : k \in 1..Len(parents[i])}

RECURSIVE Descendants(_)
\* Every node reachable from i through the children back-references.
Descendants(i) ==
    ChildNodes(i) \cup UNION {Descendants(c) : c \in ChildNodes(i)}

\* The value _compute_value gives node i from its parents' cached values.
Recomputed(i) == compute_value(St0, i)

\* The local derivative of node c with respect to the parent in slot k
\* (1-based), at the current cached values.
LocalCoef(c, k) ==
    IF kind[c] = "lin" THEN coefs[c][k]
    ELSE IF kind[c] = "mul" /\ value[parents[c][3 - k]] # None
         THEN value[parents[c][3 - k]][1]
         ELSE 0

RECURSIVE PathGrad(_, _)
\* d t / d i by the chain rule over the parent edges of t (forward
\* accumulation): 1 when i is t, else the sum over the slots of t.
PathGrad(i, t) ==
    LET RECURSIVE Sum(_)
        Sum(k) == IF k = 0 THEN 0
                  ELSE Sum(k - 1) + LocalCoef(t, k) * PathGrad(i, parents[t][k])
    IN  IF i = t THEN 1 ELSE Sum(Len(parents[t]))

RECURSIVE Eval(_)
\* The value of node i as a function of the cached values of the leaves
\* above it (a leaf is a node without parents).
Eval(i) ==
    IF parents[i] = <<>> THEN value[i][1]
    ELSE IF kind[i] = "mul" THEN Eval(parents[i][1]) * Eval(parents[i][2])
    ELSE LET RECURSIVE Sum(_)
             Sum(k) == IF k = 0 THEN 0
                       ELSE Sum(k - 1) + coefs[i][k] * Eval(parents[i][k])
         IN  Sum(Len(parents[i]))

\* ---------------------------------------------------------------- C1
\* C1: value consistency.  Every non-leaf node that holds a cached value
\* has a cached value on each of its parents, and its cached value is what
\* _compute_value gives from those parents' current cached values.
C1_ValueConsistency ==
    \A i \in Built :
        (parents[i] # <<>> /\ value[i] # None) =>
            /\ \A p \in ParentNodes(i) : value[p] # None
            /\ ~Recomputed(i).exc
            /\ value[i] = Some(Recomputed(i).ret)

\* A read has just recomputed an operation node from a leaf that holds
\* the largest value a write can store.
C1_Witness ==
    /\ last.op = "read" /\ ~last.exc /\ ~last.hadValue
    /\ parents[last.a] # <<>>
    /\ \E p \in ParentNodes(last.a) : parents[p] = <<>> /\ value[p] = Some(MaxVal)
    /\ value[last.a] = last.ret

\* ---------------------------------------------------------------- C2
\* C2: gradient consistency.  Every gradient entry cached on node i for
\* target t equals the chain-rule gradient of t with respect to i at the
\* current cached values, and the node holding it has a cached value; so no
\* entry derived from an overwritten value stays cached and the next grad
\* call returns the recomputed gradient.
C2_GradConsistency ==
    /\ \A i \in Built : \A t \in Built :
          grad[i][t] # None =>
              /\ value[i] # None
              /\ grad[i][t] = Some(PathGrad(i, t))
    /\ (last.op = "grad" /\ ~last.exc) => last.ret = Some(PathGrad(last.b, last.a))

\* A grad call has just recomputed a gradient through a product node, whose
\* local derivative is the cached value of the other parent.
C2_Witness ==
    /\ last.op = "grad" /\ ~last.exc /\ ~last.hadGrad
    /\ last.a # last.b
    /\ kind[last.a] = "mul"
    /\ grad[last.b][last.a] = last.ret
    /\ last.ret # Some(0)
    /\ \E p \in ParentNodes(last.a) : parents[p] = <<>> /\ value[p] = Some(MaxVal)

RECURSIVE ValueReached(_, _)
\* The nodes whose value the cascade started at node i clears: i when it
\* holds a value, then every child holding a value, transitively.
ValueReached(R, k) ==
    IF k = 0 THEN R
    ELSE ValueReached(
            R \cup {c \in Built : value[c] # None /\ \E r \in R : c \in ChildNodes(r)},
            k - 1)

RECURSIVE GradReached(_, _)
\* The nodes whose gradient cache is emptied when the caches of G are: the
\* parents with a non-empty cache, transitively.
GradReached(G, k) ==
    IF k = 0 THEN G
    ELSE GradReached(
            G \cup {q \in Built : grad[q] # NoGrad /\ \E g \in G : q \in ParentNodes(g)},
            k - 1)

GradCleared(i) ==
    GradReached({r \in ValueReached({i}, MaxNodes) : grad[r] # NoGrad}, MaxNodes)

RECURSIVE Ancestors(_)
Ancestors(i) == ParentNodes(i) \cup UNION {Ancestors(q) : q \in ParentNodes(i)}

RECURSIVE Paths(_, _)
\* The directed paths from p to o, each the sequence of its edges
\* <<child, slot>> (slot 1-based), last edge first.
Paths(p, o) ==
    IF p = o THEN {<<>>}
    ELSE UNION { { <<<<o, k>>>> \o path : path \in Paths(p, parents[o][k]) } :
                 k \in 1..Len(parents[o]) }

RECURSIVE PathProduct(_)
PathProduct(path) ==
    IF path = <<>> THEN 1
    ELSE coefs[path[1][1]][path[1][2]] * PathProduct(Tail(path))

RECURSIVE SumOver(_)
SumOver(ps) ==
    IF ps = {} THEN 0
    ELSE LET x == CHOOSE y \in ps : TRUE
         IN  PathProduct(x) + SumOver(ps \ {x})

\* Every operation node between p and o is linear.
LinearBetween(p, o) ==
    \A path \in Paths(p, o) : \A k \in 1..Len(path) : kind[path[k][1]] = "lin"

\* C5: gradient accumulation.  On linear operation nodes, o.grad(p) for an
\* ancestor p of o returns the sum over every directed path from p to o of
\* the product of the coefficients along the path, each (child, slot)
\* back-reference counted once.
C5_PathSum ==
    (last.op = "grad" /\ ~last.exc /\ IsAncestor(last.b, last.a)
        /\ LinearBetween(last.b, last.a)) =>
        last.ret = Some(SumOver(Paths(last.b, last.a)))

\* A gradient has just been accumulated over at least two paths.
C5_Witness ==
    /\ last.op = "grad" /\ ~last.exc /\ ~last.hadGrad
    /\ last.a # last.b
    /\ LinearBetween(last.b, last.a)
    /\ Cardinality(Paths(last.b, last.a)) >= 2
    /\ last.ret = Some(SumOver(Paths(last.b, last.a)))

\* ---------------------------------------------------------------- C6
\* A read that returns leaves the returned value cached; a read of a node
\* holding a value returns that value and calls no _compute_value.
ReadIsCached ==
    /\ (last.op = "read" /\ ~last.exc) => value[last.a] = last.ret
    /\ (last.op = "read" /\ last.hadValue) =>
          (~last.exc /\ last.cv = 0 /\ last.ret = value[last.a])

\* Only a write removes or changes a cached value.
ValueKeptUntilWrite ==
    (last'.op # "write") =>
        \A i \in Nodes : value[i] # None => value'[i] = value[i]

\* C6 as stated: consecutive reads without a write in between return the
\* same cached result, and _compute_value of a node is invoked at most once
\* between two invalidations of the node.
C6_InvokedOncePerEpoch ==
    /\ [](ReadIsCached /\ \A i \in Nodes : cvInvoked[i] <= 1)
    /\ [][ValueKeptUntilWrite]_vars

\* C6 amended: consecutive reads without a write in between return the same
\* cached result, and _compute_value of a node returns at most once between
\* two invalidations of the node (a call that raises caches nothing, and
\* the next read calls it again).
C6_ReturnedOncePerEpoch ==
    /\ [](ReadIsCached /\ \A i \in Nodes : cvReturned[i] <= 1)
    /\ [][ValueKeptUntilWrite]_vars

\* One read has computed an operation node and its parent, which is used
\* through two back-references; the parent was computed once.
C6_Witness ==
    /\ counting
    /\ last.op = "read" /\ ~last.exc /\ ~last.hadValue
    /\ last.cv >= 2
    /\ \E q \in ParentNodes(last.a) :
          /\ parents[q] # <<>>
          /\ Len(children[q]) >= 2
          /\ cvInvoked[q] = 1 /\ cvReturned[q] = 1

\* ---------------------------------------------------------------- C7
\* A grad call that returns leaves the result cached on other; a call that
\* finds the entry returns it and calls no _local_grad.
GradIsCached ==
    /\ (last.op = "grad" /\ ~last.exc) => grad[last.b][last.a] = last.ret
    /\ (last.op = "grad" /\ last.hadGrad) =>
          (~last.exc /\ last.lg = 0 /\ last.cv = 0)

\* Only a write removes or changes a gradient entry, and a grad call that
\* finds its entry changes no cache at all.
GradKeptUntilWrite ==
    /\ (last'.op # "write") =>
          \A i \in Nodes : \A t \in Nodes :
              grad[i][t] # None => grad'[i][t] = grad[i][t]
    /\ (last'.op = "grad" /\ last'.hadGrad) =>
          (grad' = grad /\ value' = value
             /\ last'.ret = grad[last'.b][last'.a])

\* C7: gradient reuse.  A second output.grad(param) with no value write in
\* between returns the same result, calls no _local_grad and adds or changes
\* no gradient entry.
C7_GradReuse ==
    /\ []GradIsCached
    /\ [][GradKeptUntilWrite]_vars

\* grad has just been answered from the cache, for a gradient that took
\* _local_grad calls to compute.
C7_Witness ==
    /\ last.op = "grad" /\ last.hadGrad /\ ~last.exc
    /\ last.a # last.b
    /\ last.lg = 0
    /\ last.ret # Some(0)

\* ---------------------------------------------------------------- C8
\* C8: idempotent invalidation.  A write to a node without a cached value
\* makes the one call of _clear_value_cache and no further call (no recursion
\* into children or parents), clears no value, and changes no cached value
\* of another node and no gradient cache.
C8_IdempotentInvalidation ==
    [][ (last'.op = "write" /\ ~last'.hadValue) =>
            /\ last'.cc = 1 /\ last'.vc = 0
            /\ grad' = grad
            /\ value' = [value EXCEPT ![last'.a] = Some(last'.b)]
      ]_vars

\* A node without a cached value has just been written while a child held
\* a value and a parent held gradient entries.
C8_Witness ==
    /\ last.op = "write" /\ ~last.hadValue
    /\ \E c \in ChildNodes(last.a) : value[c] # None
    /\ \E q \in ParentNodes(last.a) : grad[q] # NoGrad

\* ---------------------------------------------------------------- C9
\* C9: a write stores directly.  After node.value = v, whether or not a
\* value was cached before, the cached value is v, and a read of the node
\* returns v without a call of _compute_value.
C9_WriteStores ==
    (last.op = "write") =>
        /\ value[last.a] = Some(last.b)
        /\ LET R == value_get(St0, last.a)
           IN  ~R.exc /\ R.ret = last.b /\ R.cv = 0 /\ R.value = value

\* An operation node holding a value has just been written a value that
\* its _compute_value would not give.
C9_Witness ==
    /\ last.op = "write" /\ last.hadValue
    /\ parents[last.a] # <<>>
    /\ ~Recomputed(last.a).exc
    /\ Recomputed(last.a).ret # last.b
    /\ value[last.a] = Some(last.b)

\* --------------------------------------------------------------- C10
\* C10: base case.  node.grad(node), when it returns, returns the seed of
\* ones and calls no _local_grad, however many children the node has.
C10_BaseCase ==
    (last.op = "grad" /\ last.a = last.b /\ ~last.exc) =>
        (last.ret = Some(1) /\ last.lg = 0)

\* node.grad(node) has just been computed for a node with two children.
C10_Witness ==
    /\ last.op = "grad" /\ last.a = last.b /\ ~last.exc /\ ~last.hadGrad
    /\ Len(children[last.a]) >= 2
    /\ grad[last.a][last.a] = Some(1)

\* ---------------------------------------------------------------- C11
\* The number of times the back-reference e occurs in p._children.
Occurrences(p, e) ==
    Cardinality({k \in 1..Len(children[p]) : children[p][k] = e})

RECURSIVE SlotsOf(_, _, _, _)
\* The back-references <<c, parent_index>> of the first k slots of the
\* parent list ps that hold p, in slot order.
SlotsOf(c, ps, p, k) ==
    IF k = 0 THEN <<>>
    ELSE LET r == SlotsOf(c, ps, p, k - 1)
         IN  IF ps[k] = p THEN Append(r, <<c, k - 1>>) ELSE r

\* The children back-references mirror the parent edges, and no node
\* reaches itself through them.
C11_Mirror ==
    /\ \A p \in Built : \A k \in 1..Len(children[p]) :
          /\ children[p][k][1] \in Built
          /\ children[p][k][2] \in 0..(Len(parents[children[p][k][1]]) - 1)
    /\ \A p \in Built : \A c \in Built : \A s \in 0..(Len(parents[c]) - 1) :
          Occurrences(p, <<c, s>>) =
              IF parents[c][s + 1] = p THEN 1 ELSE 0
    /\ \A i \in Built :
          /\ i \notin Descendants(i)
          /\ \A k \in 1..Len(parents[i]) : ~IsAncestor(i, parents[i][k])

\* A construction appends <<new node, k>> to the parent of every slot k, in
\* slot order, and touches no cached value and no gradient cache.
C11_ConstructStep ==
    last'.op = "new" =>
        /\ n' = n + 1
        /\ last'.a = n'
        /\ \A p \in Built :
              children'[p] =
                  children[p] \o SlotsOf(n', parents'[n'], p, Len(parents'[n']))
        /\ children'[n'] = <<>>
        /\ \A i \in Nodes :
              /\ value'[i] = IF i = n' THEN None ELSE value[i]
              /\ grad'[i] = IF i = n' THEN NoGrad ELSE grad[i]
        /\ last'.cv = 0 /\ last'.lg = 0

\* C11: construction and back-reference mirroring.  Constructing a node
\* appends (new node, k) to the children of the parent in every slot k and
\* computes no value and no gradient; after any sequence of constructions
\* (C, k) occurs in P.children exactly once if and only if C.parents[k] is
\* P, and the parent relation is acyclic.
C11_Construction == []C11_Mirror /\ [][C11_ConstructStep]_vars

\* A node has just been constructed with the same parent in both slots,
\* and that parent already had a child.
C11_Witness ==
    /\ last.op = "new"
    /\ \E p \in Built :
          /\ parents[last.a] = <<p, p>>
          /\ Len(children[p]) = 3
          /\ children[p][1][1] # last.a
          /\ children[p][2] = <<last.a, 0>>
          /\ children[p][3] = <<last.a, 1>>

\* ---------------------------------------------------------------- C12
\* The step is a call receiver.grad(other) with other neither the receiver
\* nor an ancestor of it (last'.a is the receiver, last'.b is other).
NonAncestorGrad == last'.op = "grad" /\ ~IsAncestor(last'.b, last'.a)

\* The nodes that get an entry for the receiver in this step.
Gained(t) == {j \in Built : grad[j][t] = None /\ grad'[j][t] # None}

\* The claim as it is worded, for the calls that return and find no entry
\* for the receiver on other: the zero result is recorded on other and on
\* every descendant of other.
C12_RecordedOnEveryDescendant ==
    [][ (NonAncestorGrad /\ ~last'.exc /\ ~last'.hadGrad) =>
            /\ last'.ret = Some(0)
            /\ \A d \in {last'.b} \cup Descendants(last'.b) :
                  grad'[d][last'.a] = Some(0) ]_vars

\* C12: unvalidated non-ancestor gradient.  receiver.grad(other) with other
\* no ancestor of the receiver raises no error of its own: it raises only
\* when the value of other or of a descendant of other cannot be computed.
\* When it returns, the result is zero, it is recorded on other, and every
\* node that gets an entry in the call is other or a descendant of other,
\* gets zero, and has all its children holding zero for the receiver; the
\* entries for other targets are left as they were.
C12_NonAncestorGrad ==
    [][ NonAncestorGrad =>
          LET t == last'.a
              o == last'.b
              Sub == {o} \cup Descendants(o)
          IN  /\ last'.exc =>
                    \E d \in Sub : value[d] = None /\ value_get(St0, d).exc
              /\ ~last'.exc =>
                    /\ last'.ret = Some(0)
                    /\ grad'[o][t] = Some(0)
                    /\ \A j \in Gained(t) :
                          /\ j \in Sub
                          /\ grad'[j][t] = Some(0)
                          /\ \A c \in ChildNodes(j) : grad'[c][t] = Some(0)
              /\ \A j \in Nodes : \A u \in Nodes \ {t} : grad'[j][u] = grad[j][u]
    ]_vars

\* A call with a non-ancestor has just returned zero and left zero entries
\* on other and on a child and a grandchild of other.
C12_Witness ==
    /\ last.op = "grad" /\ ~last.exc /\ ~last.hadGrad
    /\ ~IsAncestor(last.b, last.a)
    /\ last.ret = Some(0)
    /\ grad[last.b][last.a] = Some(0)
    /\ \E c \in ChildNodes(last.b) :
          /\ grad[c][last.a] = Some(0)
          /\ \E e \in ChildNodes(c) : grad[e][last.a] = Some(0)

\* ---------------------------------------------------------------- C13
RECURSIVE NeedsAbstract(_)
\* A read of node i reaches the abstract _compute_value: i has no cached
\* value and is of the base class, or one of its parents is such a node.
NeedsAbstract(i) ==
    /\ value[i] = None
    /\ \/ kind[i] = "base"
       \/ \E k \in 1..Len(parents[i]) : NeedsAbstract(parents[i][k])

\* The nodes without a cached value whose _compute_value is abstract.
AbstractNodes == {f \in Built : kind[f] = "base" /\ value[f] = None}

\* A value read fails exactly when it reaches an abstract node, and then no
\* abstract node above the read node and no descendant of one has gained a
\* cached value.
C13_FailedRead ==
    last'.op = "read" =>
        /\ last'.exc <=> NeedsAbstract(last'.a)
        /\ last'.exc =>
              \A f \in AbstractNodes :
                  IsAncestor(f, last'.a) =>
                      \A j \in {f} \cup Descendants(f) :
                          value[j] = None => value'[j] = None

\* The step is a grad call that raised.
FailedGrad == last'.op = "grad" /\ last'.exc

\* The claim as it is worded: no entry is stored on a node whose
\* accumulation failed or on any ancestor of such a node.
C13_NoEntryOnAnyAncestor ==
    [][ FailedGrad =>
            \A j \in last'.failed : \A q \in Built :
                IsAncestor(q, j) => grad'[q] = grad[q] ]_vars

\* A grad call that raised has stored no entry on a node whose accumulation
\* failed; these nodes are other and, below it, the nodes the call went
\* through: each has a parent whose accumulation failed as well.
C13_FailedGrad ==
    FailedGrad =>
        /\ last'.b \in last'.failed
        /\ \A j \in last'.failed :
              /\ grad'[j] = grad[j]
              /\ grad'[j][last'.a] = None
              /\ j # last'.b => ParentNodes(j) \cap last'.failed # {}

\* C13: abstract extension points fail and leave the caches consistent.  A
\* value read that reaches a node with no cached value and the abstract
\* _compute_value raises, and neither that node nor a node downstream of it
\* gains a cached value; a grad call that raises (in _local_grad or in a
\* value read) stores no entry on the node whose accumulation failed nor on
\* the nodes through which the call reached it; after a failed call the
\* cached values and gradients are consistent.
C13_AbstractFailures ==
    /\ [][C13_FailedRead]_vars
    /\ [][C13_FailedGrad]_vars
    /\ [](last.exc => (C1_ValueConsistency /\ C2_GradConsistency))

\* A grad call has just raised in the _local_grad of a "fwd" node: every
\* value it needed was computed, the "fwd" child holds its own entry, and
\* the node whose accumulation failed holds none.
C13_Witness ==
    /\ last.op = "grad" /\ last.exc /\ last.lg >= 1
    /\ \A i \in Built : value[i] # None
    /\ last.b \in last.failed
    /\ grad[last.b][last.a] = None
    /\ \E c \in ChildNodes(last.b) :
          kind[c] = "fwd" /\ grad[c][last.a] # None /\ c \notin last.failed

\* ---------------------------------------------------------------- C14
\* C14: topology and slot stability.  No step changes the parent list, the
\* kind or the coefficients of a constructed node, and every children list
\* keeps its entries at their positions: a read, a write or a grad call
\* leaves parents and children as they are, and a construction only
\* appends to children lists.
C14_TopologyStable ==
    [][ /\ \A i \in Built :
              /\ parents'[i] = parents[i]
              /\ kind'[i] = kind[i]
              /\ coefs'[i] = coefs[i]
              /\ Len(children'[i]) >= Len(children[i])
              /\ SubSeq(children'[i], 1, Len(children[i])) = children[i]
        /\ last'.op \in {"read", "write", "grad"} =>
              /\ parents' = parents
              /\ children' = children
              /\ n' = n
    ]_vars

\* A node has just been constructed below a parent that already had a
\* child and holds a cached value and a gradient entry: the earlier
\* back-reference is still first, the new one is last.
C14_Witness ==
    /\ last.op = "new"
    /\ \E p \in ParentNodes(last.a) :
          /\ Len(children[p]) >= 2
          /\ children[p][1][1] # last.a
          /\ children[p][Len(children[p])][1] = last.a
          /\ value[p] # None
          /\ grad[p] # NoGrad

\* ---------------------------------------------------------------- C15
RECURSIVE Needed(_)
\* The nodes a read of i needs a value computed for: i when it has no
\* cached value, and then what its parents need.
Needed(i) ==
    IF value[i] # None THEN {}
    ELSE {i} \cup UNION {Needed(parents[i][k]) : k \in 1..Len(parents[i])}

\* C15: value read frame.  A read changes the cached value only of nodes
\* that had none and that the read needs (the read node and ancestors of
\* it), all of them when it returns; a cached value that is present stays,
\* and no gradient entry of any node is added, removed or changed.
C15_ReadFrame ==
    [][ last'.op = "read" =>
          LET Filled == {j \in Nodes : value'[j] # value[j]}
          IN  /\ Filled \subseteq Needed(last'.a)
              /\ \A j \in Filled : IsAncestor(j, last'.a)
              /\ ~last'.exc => Filled = Needed(last'.a)
              /\ \A j \in Nodes : value[j] # None => value'[j] = value[j]
              /\ grad' = grad
    ]_vars

\* A read has just filled the read node and a parent of it, next to a
\* node whose cached value and gradient entries it found and left.
C15_Witness ==
    /\ last.op = "read" /\ ~last.exc /\ ~last.hadValue
    /\ last.cv >= 2
    /\ \E p \in ParentNodes(last.a) : parents[p] # <<>> /\ value[p] # None
    /\ \E j \in Built : grad[j] # NoGrad /\ value[j] # None

\* ---------------------------------------------------------------- C17
\* A node with a gradient entry has a cached value.
GradHasValue == \A i \in Nodes : grad[i] # NoGrad => value[i] # None

\* A step stores an entry only on a node that then has a cached value,
\* clears a value only together with the node's gradient cache, and a
\* write that finds no cached value (the cascade is skipped) finds the
\* node's gradient cache empty and clears nothing.
C17_Step ==
    /\ \A i \in Nodes :
          /\ (\E t \in Nodes : grad[i][t] = None /\ grad'[i][t] # None)
                => value'[i] # None
          /\ (value[i] # None /\ value'[i] = None) => grad'[i] = NoGrad
    /\ (last'.op = "write" /\ ~last'.hadValue) =>
          /\ grad[last'.a] = NoGrad
          /\ grad' = grad
          /\ last'.vc = 0

\* C17: gradient cache implies value cache.  Between operations every node
\* with a non-empty gradient cache has a cached value, so a write that
\* skips the cascade because the value is absent leaves no entry behind.
C17_GradImpliesValue == []GradHasValue /\ [][C17_Step]_vars

\* A write has just skipped the cascade on a node without a cached value,
\* while another node holds gradient entries and its value.
C17_Witness ==
    /\ last.op = "write" /\ ~last.hadValue /\ last.vc = 0
    /\ grad[last.a] = NoGrad
    /\ \E j \in Built : j # last.a /\ grad[j] # NoGrad /\ value[j] # None

\* ---------------------------------------------------------------- C18
\* C18: invalidation precision for values.  A write to node X leaves the
\* cached value of every node that is neither X nor a descendant of X as it
\* was: ancestors, co-parents and unrelated nodes keep their cached values.
C18_WritePrecision ==
    [][ last'.op = "write" =>
            \A j \in Nodes \ ({last'.a} \cup Descendants(last'.a)) :
                value'[j] = value[j] ]_vars

\* A write has just replaced the cached value of an operation node whose
\* gradient cache was not empty (the walk to the parents ran) and cleared a
\* child of it, while a parent of the written node and a co-parent of the
\* child keep their cached values.
C18_Witness ==
    /\ last.op = "write" /\ last.hadValue /\ last.hadGrad
    /\ \E p \in ParentNodes(last.a) : value[p] # None
    /\ \E c \in ChildNodes(last.a) :
          \E q \in ParentNodes(c) :
              q # last.a /\ q \notin Descendants(last.a) /\ value[q] # None

\* ---------------------------------------------------------------- C19
RECURSIVE EdgesUpTo(_)
\* The number of back-references (child, slot) held by nodes 1..i.
EdgesUpTo(i) == IF i = 0 THEN 0 ELSE EdgesUpTo(i - 1) + Len(children[i])
Edges == EdgesUpTo(n)

\* The number of method calls an operation can make on a graph of n nodes
\* and Edges back-references when no node is cleared or computed twice:
\* the setter, one _clear_value_cache per back-reference of a cleared node,
\* one _clear_grad_cache per cleared node and per parent slot of an emptied
\* one; the getter, one _compute_value per node and one read per parent
\* slot; grad, and per back-reference one _d_out_d_parent, _d_out_d_self,
\* _local_grad and value read, besides the reads of the shapes.
WriteSteps == 2 * Edges + n + 2
ReadSteps == Edges + n + 1
GradSteps == 5 * Edges + 2 * n + 2

\* C19: termination of traversals.  A write, a read and a grad call each
\* end after a number of method calls bounded by the size of the graph,
\* and within one call `self._value = None` and `self._grad = {}` run at
\* most once on each node: a second arrival at a cleared node stops there.
C19_Termination ==
    /\ \A i \in Nodes : last.vclr[i] <= 1 /\ last.gclr[i] <= 1
    /\ last.op = "write" => last.steps <= WriteSteps
    /\ last.op = "read" => last.steps <= ReadSteps
    /\ last.op = "grad" => last.steps <= GradSteps

\* A write has just cleared a child that sits in two slots of the written
\* node: the cascade arrived at the child twice and cleared it once, and
\* the walk back up arrived at the written node twice before its own
\* gradient cache was due, and emptied it once.
C19_Witness ==
    /\ last.op = "write" /\ last.hadValue
    /\ last.steps >= 6
    /\ \E c \in Built :
          /\ parents[c] = <<last.a, last.a>>
          /\ last.vclr[c] = 1
          /\ last.gclr[c] = 1
          /\ last.gclr[last.a] = 1

\* ---------------------------------------------------------------- C16
\* The leaves above node i all hold a value.
LeavesCached(i) ==
    \A l \in Built : (IsLeaf(l) /\ IsAncestor(l, i)) => value[l] # None

\* Node d caches a value that is not the one its leaves give now.
StaleValue(d) ==
    /\ value[d] # None /\ ~IsLeaf(d)
    /\ ~LeavesCached(d) \/ value[d] # Some(Eval(d))

\* Node d caches a gradient entry that is not the chain-rule gradient at
\* the values cached now.
StaleGrad(d) ==
    \E t \in Built : grad[d][t] # None /\ grad[d][t] # Some(PathGrad(d, t))

\* C16: partial cascades break consistency under interleaving.  When every
\* write runs with exclusive access, then between writes no node caches a
\* value or a gradient computed from an overwritten value; without it a
\* read or grad call between the steps of the cascade leaves such a value
\* and gradient on a descendant after the write has completed (the state
\* C16_Witness, reachable only in the runs without exclusive access).
C16_ExclusiveWrites ==
    (exclusive /\ wr.phase = "idle") =>
        \A d \in Built : ~StaleValue(d) /\ ~StaleGrad(d)

\* Without exclusive access a write has just completed, and a descendant of
\* the written leaf caches a value and a gradient entry computed from the
\* overwritten value.
C16_Witness ==
    /\ ~exclusive
    /\ wr.phase = "idle"
    /\ last.op = "write" /\ last.hadValue
    /\ \E d \in Descendants(last.a) : StaleValue(d) /\ StaleGrad(d)

====
